---- MODULE Spec2Model ----
(***************************************************************************)
(* A model of the Personal-Assistant bot: the Flask webhook (src/app.py),  *)
(* the Telegram handlers it dispatches to, the Gemini intent classifier    *)
(* adapter and the Toggl REST client (src/features/toggle/toggl_api.py).   *)
(*                                                                         *)
(* Python values are modelled as follows.                                   *)
(*   - a str is a sequence of one-character strings where the code looks   *)
(*     inside it (the classifier's response text), and a TLA+ string       *)
(*     where it is only passed along (descriptions, message texts);        *)
(*   - an int-or-None value is a tuple: None is <<>>, the int n is <<n>>;  *)
(*   - a dict is a function whose DOMAIN is the set of keys present.       *)
(***************************************************************************)
EXTENDS Integers, Sequences, FiniteSets, TLC

VARIABLES
    gemini_model,     \* app.py:29-34   TRUE iff GEMINI_API_KEY was set at import
    TOGGL_API_KEY,    \* toggl_api.py:9 TRUE iff the key was set at import
    remote_projects,  \* the project list the Toggl workspace holds (response.json(), toggl_api.py:59)
    user_data,        \* context.user_data of the conversation (a dict)
    update,           \* the inbound update the last webhook call carried
    response,         \* the classifier's reply to the last classification
    effects,          \* what the last webhook call did, in order: replies, Toggl calls, HTTP requests
    toggl_exc,        \* the exception the Toggl client raised during the last dispatch
    handler_exc,      \* the exception that left the handler of the last update
    http_status,      \* the HTTP status of the last webhook response
    result            \* the value the last direct call of a client function returned

vars == <<gemini_model, TOGGL_API_KEY, remote_projects, user_data, update,
          response, effects, toggl_exc, handler_exc, http_status, result>>

(***************************************************************************)
(* Bounds of the model.                                                    *)
(***************************************************************************)
\* ids of clients and projects range over 0..MaxId
MaxId == 1
\* the remote workspace holds at most MaxProjects projects
MaxProjects == 3
\* a JSON object of the classifier holds at most MaxMembers members
MaxMembers == 2

(***************************************************************************)
(* Python values.                                                          *)
(***************************************************************************)
None == <<>>

Some(n) == <<n>>

\* Python truthiness of an int-or-None value: None and 0 are falsy.
Truthy(v) == v /= None /\ v /= Some(0)

\* dict.get(key, default)
Get(d, key, default) == IF key \in DOMAIN d THEN d[key] ELSE default

\* d[key] = value on a dict
Put(d, key, value) == (key :> value) @@ d

EmptyDict == [k \in {} |-> None]

\* No exception, and the exception of class t with message m.
NoExc == [type |-> "", msg |-> ""]

Exc(t, m) == [type |-> t, msg |-> m]

(***************************************************************************)
(* str operations on sequences of characters.                              *)
(***************************************************************************)
Whitespace == {" ", "\n", "\t"}

startswith(s, p) == Len(s) >= Len(p) /\ SubSeq(s, 1, Len(p)) = p

endswith(s, p) == Len(s) >= Len(p) /\ SubSeq(s, Len(s) - Len(p) + 1, Len(s)) = p

RECURSIVE lstrip(_)
lstrip(s) == IF s /= <<>> /\ Head(s) \in Whitespace THEN lstrip(Tail(s)) ELSE s

RECURSIVE rstrip(_)
rstrip(s) ==
    IF s /= <<>> /\ s[Len(s)] \in Whitespace THEN rstrip(SubSeq(s, 1, Len(s) - 1)) ELSE s

strip(s) == rstrip(lstrip(s))

\* s[n:]
DropFirst(s, n) == SubSeq(s, n + 1, Len(s))

\* s[:-n], n > 0
DropLast(s, n) == SubSeq(s, 1, Len(s) - n)

(***************************************************************************)
(* The code fence markers of get_gemini_intent.                            *)
(***************************************************************************)
\* The backquote character (a TLA+ string cannot hold one: "'" stands for it).
BQ == "'"

Fence == <<BQ, BQ, BQ>>

JsonFence == <<BQ, BQ, BQ, "j", "s", "o", "n">>

\* response_text[7:]
JsonFenceCut == 7

\* response_text[:-3]
FenceCut == 3

StripLeadShort(t) == IF startswith(t, JsonFence) THEN DropFirst(t, FenceCut) ELSE t

\* app.py:94-95
StripLead(t) == IF startswith(t, JsonFence) THEN DropFirst(t, JsonFenceCut) ELSE t

\* app.py:96-97
StripTrail(t) == IF endswith(t, Fence) THEN DropLast(t, FenceCut) ELSE t

\* app.py:94-97, on the stripped response text
FenceStrip(t) == StripTrail(StripLead(t))

(***************************************************************************)
(* json.loads on the response texts of the model.  A JSON object is "{",   *)
(* members, "}"; each member is written as one character standing for a    *)
(* well-formed  "key": value  pair (with its comma).  "[" "]" is a JSON    *)
(* array, a value that is not an object.  Whitespace around the value and  *)
(* between members is skipped, as the JSON grammar allows; any other text  *)
(* raises json.JSONDecodeError.                                            *)
(***************************************************************************)
MemberKey ==
    [S |-> "action", A |-> "action", T |-> "action", G |-> "action", N |-> "action",
     U |-> "action", D |-> "description", Z |-> "duration_seconds",
     H |-> "duration_seconds", Q |-> "duration_seconds"]

MemberValue ==
    [S |-> "start_timer", A |-> "add_entry", T |-> "stop_timer", G |-> "get_status",
     N |-> "none", U |-> "dance", D |-> "coding", Z |-> Some(0), H |-> Some(1800),
     Q |-> None]

MemberChars == DOMAIN MemberKey

\* The dict of a member sequence: a repeated key keeps its last value.
RECURSIVE MembersDict(_)
MembersDict(ms) ==
    IF ms = <<>> THEN EmptyDict
    ELSE LET last == ms[Len(ms)]
             rest == MembersDict(SubSeq(ms, 1, Len(ms) - 1))
         IN  IF last \in Whitespace THEN rest
             ELSE Put(rest, MemberKey[last], MemberValue[last])

json_loads(s) ==
    LET t == strip(s)
        inner == SubSeq(t, 2, Len(t) - 1)
    IN  IF /\ Len(t) >= 2
           /\ t[1] = "{"
           /\ t[Len(t)] = "}"
           /\ \A i \in 1..Len(inner) : inner[i] \in MemberChars \cup Whitespace
        THEN [kind |-> "dict", value |-> MembersDict(inner), exc |-> ""]
        ELSE IF t = <<"[", "]">>
        THEN [kind |-> "list", value |-> EmptyDict, exc |-> ""]
        ELSE [kind |-> "raise", value |-> EmptyDict, exc |-> "JSONDecodeError"]

(***************************************************************************)
(* The intent classifier adapter.  A classifier response is either an      *)
(* error raised by generate_content / response.text, or a text.            *)
(***************************************************************************)
\* response.text: the text the model returned, made of its parts
ResponseText(r) == r.pre \o r.lead \o r.body \o r.trail \o r.post

\* app.py:85
DisabledIntent(text) == [action |-> "none", raw_text |-> text]

\* app.py:104
ErrorIntent(text, e) == [action |-> "none", raw_text |-> text, error |-> e]

\* app.py:93-97: the local response_text that json.loads is given
response_text(r) == FenceStrip(strip(ResponseText(r)))

\* get_gemini_intent with an except clause that takes json.JSONDecodeError only
get_gemini_intent_narrow_except(text, r) ==
    IF ~gemini_model THEN [exc |-> NoExc, value |-> DisabledIntent(text)]
    ELSE IF r.raises THEN [exc |-> Exc("GeminiError", ""), value |-> EmptyDict]
    ELSE LET parsed == json_loads(response_text(r))
         IN  CASE parsed.kind = "dict" ->
                    [exc |-> NoExc, value |-> Put(parsed.value, "raw_text", text)]
               [] parsed.kind = "list" ->
                    [exc |-> Exc("TypeError", "list indices must be integers"),
                     value |-> EmptyDict]
               [] OTHER -> [exc |-> NoExc, value |-> ErrorIntent(text, parsed.exc)]

\* app.py:81-104.  Yields [exc, value]: every exception raised inside the try
\* block (by the model, by json.loads, or by intent['raw_text'] = text on a
\* value that is not a dict) is caught by the except clause of line 102.
get_gemini_intent(text, r) ==
    IF ~gemini_model THEN [exc |-> NoExc, value |-> DisabledIntent(text)]
    ELSE IF r.raises THEN [exc |-> NoExc, value |-> ErrorIntent(text, "GeminiError")]
    ELSE LET parsed == json_loads(response_text(r))
         IN  CASE parsed.kind = "dict" ->
                    [exc |-> NoExc, value |-> Put(parsed.value, "raw_text", text)]
               [] parsed.kind = "list" ->
                    [exc |-> NoExc, value |-> ErrorIntent(text, "TypeError")]
               [] OTHER -> [exc |-> NoExc, value |-> ErrorIntent(text, parsed.exc)]

(***************************************************************************)
(* Exceptions, and the log of what a call did.                             *)
(***************************************************************************)
Eff(op, what, args) == [op |-> op, what |-> what, args |-> args]

\* an HTTP request sent to the Toggl API, with the answer it got
Request(what, answer) == Eff("http", what, <<answer>>)

Raise(e, log) == [exc |-> e, value |-> None, log |-> log]

Return(v, log) == [exc |-> NoExc, value |-> v, log |-> log]

(***************************************************************************)
(* The Toggl client.  env is what the remote API answers during one        *)
(* webhook call:                                                           *)
(*   env.me       "ok", "no_ws" (no default_workspace_id), "4xx", "5xx"    *)
(*   env.api      "ok", "4xx", "5xx": the answer of the other endpoint     *)
(*   env.running  whether a time entry is running                          *)
(* An operation yields [exc, value, log]: the exception it raised (NoExc   *)
(* if none), its return value, and the HTTP requests it sent.              *)
(***************************************************************************)
MeOutcomes == {"ok", "no_ws", "4xx", "5xx"}

ApiOutcomes == {"ok", "4xx", "5xx"}

\* Every operation stops at the first request that fails, so the answers that
\* follow a failure are never read: one environment stands for each of them.
Envs ==
    {e \in [me : MeOutcomes, api : ApiOutcomes, running : BOOLEAN] :
        /\ e.me /= "ok" => e.api = "ok"
        /\ e.api /= "ok" => ~e.running
        /\ e.me /= "ok" => ~e.running}

OkEnv == [me |-> "ok", api |-> "ok", running |-> FALSE]

\* data["default_workspace_id"] of the account
WorkspaceId == 1

\* toggl_api.py:12-22
get_headers_exc ==
    IF TOGGL_API_KEY THEN NoExc
    ELSE Exc("ValueError", "TOGGL_API_KEY not set in environment variables.")

\* response.raise_for_status() of requests: an HTTPError (an IOError, not a
\* ValueError) for a 4xx or 5xx status
raise_for_status(outcome) ==
    IF outcome \in {"4xx", "5xx"} THEN Exc("HTTPError", outcome) ELSE NoExc

\* toggl_api.py:24-32
get_workspace_id(env) ==
    IF get_headers_exc /= NoExc THEN Raise(get_headers_exc, <<>>)
    ELSE IF raise_for_status(env.me) /= NoExc
    THEN Raise(raise_for_status(env.me), <<Request("GET /me", env.me)>>)
    ELSE Return(IF env.me = "ok" THEN Some(WorkspaceId) ELSE None, <<Request("GET /me", env.me)>>)

\* the clients of the workspace
RemoteClients == [i \in 1..(MaxId + 1) |-> [id |-> i - 1]]

\* toggl_api.py:34-43
get_clients(env) ==
    LET ws == get_workspace_id(env)
        log == ws.log \o <<Request("GET /clients", env.api)>>
    IN  IF ws.exc /= NoExc THEN ws
        ELSE IF ~Truthy(ws.value) THEN Return(<<>>, ws.log)
        ELSE IF raise_for_status(env.api) /= NoExc THEN Raise(raise_for_status(env.api), log)
        ELSE Return(RemoteClients, log)

\* toggl_api.py:45-62
get_projects(client_id, env) ==
    LET ws == get_workspace_id(env)
        log == ws.log \o <<Request("GET /projects", env.api)>>
        all_projects == remote_projects
    IN  IF ws.exc /= NoExc THEN ws
        ELSE IF ~Truthy(ws.value) THEN Return(<<>>, ws.log)
        ELSE IF raise_for_status(env.api) /= NoExc THEN Raise(raise_for_status(env.api), log)
        ELSE IF Truthy(client_id)
        THEN Return(SelectSeq(all_projects, LAMBDA p : p.client_id = client_id), log)
        ELSE Return(all_projects, log)

\* toggl_api.py:64-80
start_time_entry(description, project_id, env) ==
    LET ws == get_workspace_id(env)
        log == ws.log \o <<Request("POST /time_entries", env.api)>>
    IN  IF ws.exc /= NoExc THEN ws
        ELSE IF ~Truthy(ws.value)
        THEN Raise(Exc("ValueError", "Could not determine workspace ID."), ws.log)
        ELSE IF raise_for_status(env.api) /= NoExc THEN Raise(raise_for_status(env.api), log)
        ELSE Return([description |-> description, project_id |-> project_id,
                     duration |-> None], log)

\* toggl_api.py:82-95.  Line 93 builds json={{}}: a set display holding a dict,
\* which raises TypeError (unhashable type) while the arguments of requests.put
\* are evaluated, so the stop request is never sent.
stop_active_time_entry(env) ==
    LET answer == IF env.api /= "ok" THEN env.api
                  ELSE IF env.running THEN "entry" ELSE "null"
        log == <<Request("GET /me/time_entries/current", answer)>>
    IN  IF get_headers_exc /= NoExc THEN Raise(get_headers_exc, <<>>)
        ELSE IF raise_for_status(env.api) /= NoExc THEN Raise(raise_for_status(env.api), log)
        ELSE IF ~env.running THEN Return(None, log)
        ELSE Raise(Exc("TypeError", "unhashable type: 'dict'"), log)

\* toggl_api.py:97-136 (the start and stop timestamps of the payload, computed
\* from the clock, are not part of the model)
create_time_entry(description, duration_seconds, project_id, env) ==
    LET ws == get_workspace_id(env)
        log == ws.log \o <<Request("POST /time_entries", env.api)>>
    IN  IF ws.exc /= NoExc THEN ws
        ELSE IF ~Truthy(ws.value)
        THEN Raise(Exc("ValueError", "Could not determine workspace ID."), ws.log)
        ELSE IF raise_for_status(env.api) /= NoExc THEN Raise(raise_for_status(env.api), log)
        ELSE Return([description |-> description, project_id |-> project_id,
                     duration |-> duration_seconds], log)

(***************************************************************************)
(* The Telegram handlers.  A handler yields                                *)
(*   [effects, user_data, toggl_exc, handler_exc]:                         *)
(* what it did in order, the conversation's user_data when it ended, the   *)
(* exception the Toggl client raised inside its try block, and the         *)
(* exception that left the handler (NoExc when it returned).               *)
(***************************************************************************)
Reply(what, args) == Eff("reply", what, args)

Call(what, args) == Eff("toggl", what, args)

Handled(eff, ud, texc, hexc) ==
    [effects |-> eff, user_data |-> ud, toggl_exc |-> texc, handler_exc |-> hexc]

\* ExceptReply with the first except clause also taking a 4xx HTTPError
ExceptReplyHintOn4xx(e) ==
    IF e.type = "ValueError" \/ e = Exc("HTTPError", "4xx") THEN Reply("key_hint", <<e.msg>>)
    ELSE Reply("generic_error", <<e.msg>>)

\* app.py:163-167 (and 296-300): the two except clauses of the dispatch
ExceptReply(e) ==
    IF e.type = "ValueError" THEN Reply("key_hint", <<e.msg>>)
    ELSE Reply("generic_error", <<e.msg>>)

\* TryToggl without the except clauses: the exception leaves the dispatch
TryTogglUncaught(call, c, ok) ==
    [effects |-> <<call>> \o c.log \o (IF c.exc = NoExc THEN <<ok>> ELSE <<>>),
     toggl_exc |-> c.exc,
     handler_exc |-> c.exc]

\* app.py:127-167 (and 260-300): a Toggl call inside the try block.  call is the
\* call, c what it yielded, ok the reply sent after it returned.
\* Yields [effects, toggl_exc, handler_exc].
TryToggl(call, c, ok) ==
    [effects |-> <<call>> \o c.log \o <<IF c.exc = NoExc THEN ok ELSE ExceptReply(c.exc)>>,
     toggl_exc |-> c.exc,
     handler_exc |-> NoExc]

\* a branch of the dispatch that calls nothing
Done(eff) == [effects |-> eff, toggl_exc |-> NoExc, handler_exc |-> NoExc]

\* app.py:122-167 (and 255-300): the dispatch on the intent's action.
\* Yields [effects, toggl_exc, handler_exc].
DispatchIntent(intent, user_text, ud, env) ==
    LET action == Get(intent, "action", "None")
        description == Get(intent, "description", user_text)
        duration_seconds == Get(intent, "duration_seconds", None)
        project_id == Get(ud, "selected_project_id", None)
    IN  CASE action = "start_timer" ->
               IF ~Truthy(project_id) THEN Done(<<Reply("select_project", <<>>)>>)
               ELSE TryToggl(Call("start_time_entry", <<description, project_id>>),
                             start_time_entry(description, project_id, env),
                             Reply("started", <<description, project_id>>))
          [] action = "add_entry" ->
               IF ~Truthy(project_id) THEN Done(<<Reply("select_project", <<>>)>>)
               ELSE IF ~Truthy(duration_seconds) THEN Done(<<Reply("need_duration", <<>>)>>)
               ELSE TryToggl(Call("create_time_entry",
                                  <<description, duration_seconds, project_id>>),
                             create_time_entry(description, duration_seconds, project_id, env),
                             Reply("added", <<description, duration_seconds, project_id>>))
          [] action = "stop_timer" ->
               LET c == stop_active_time_entry(env)
               IN  TryToggl(Call("stop_active_time_entry", <<>>), c,
                            IF c.value /= None THEN Reply("stopped", <<>>)
                            ELSE Reply("no_active", <<>>))
          [] action = "get_status" -> Done(<<Reply("status", <<>>)>>)
          [] action = "none" -> Done(<<Reply("none_echo", <<intent>>)>>)
          [] OTHER -> Done(<<Reply("unknown_echo", <<intent>>)>>)

\* app.py:87-91: the call of the language model that get_gemini_intent makes
GeminiCall(text) ==
    IF gemini_model THEN <<Eff("gemini", "generate_content", <<text>>)>> ELSE <<>>

\* app.py:108-110
start(ud) == Handled(<<Reply("greeting", <<>>)>>, ud, NoExc, NoExc)

\* handle_text_message without the guard of lines 115-117
handle_text_message_unguarded(user_text, r, ud, env) ==
    LET g == get_gemini_intent(user_text, r)
        ud1 == Put(ud, "last_intent", g.value)
        d == DispatchIntent(g.value, user_text, ud1, env)
    IN  IF g.exc /= NoExc THEN Handled(GeminiCall(user_text), ud, NoExc, g.exc)
        ELSE Handled(GeminiCall(user_text) \o d.effects, ud1, d.toggl_exc, d.handler_exc)

\* app.py:112-167
handle_text_message(user_text, r, ud, env) ==
    IF ~gemini_model THEN Handled(<<Reply("disabled_text", <<>>)>>, ud, NoExc, NoExc)
    ELSE LET g == get_gemini_intent(user_text, r)
             ud1 == Put(ud, "last_intent", g.value)
             d == DispatchIntent(g.value, user_text, ud1, env)
         IN  IF g.exc /= NoExc THEN Handled(GeminiCall(user_text), ud, NoExc, g.exc)
             ELSE Handled(GeminiCall(user_text) \o d.effects, ud1, d.toggl_exc, d.handler_exc)

\* app.py:175-192
toggl_clients_command(ud, env) ==
    LET c == get_clients(env)
        call == <<Call("get_clients", <<>>)>> \o c.log
    IN  IF c.exc /= NoExc
        THEN Handled(call \o <<Reply("clients_failed", <<c.exc.msg>>)>>, ud, c.exc, NoExc)
        ELSE IF c.value = <<>>
        THEN Handled(call \o <<Reply("no_clients", <<>>)>>, ud, NoExc, NoExc)
        ELSE Handled(call \o <<Reply("choose_client", <<c.value>>)>>, ud, NoExc, NoExc)

\* button_handler with the client stored only once its projects were fetched
button_handler_select_after_fetch(data, ud, env) ==
    LET answer == <<Eff("telegram", "answer", <<>>)>>
    IN  IF data.id = None /\ data.prefix \in {"client_", "project_"}
        THEN Handled(answer, ud, NoExc, Exc("ValueError", "invalid literal for int()"))
        ELSE IF data.prefix = "client_"
        THEN LET ud1 == Put(ud, "selected_client_id", data.id)
                 c == get_projects(data.id, env)
                 call == answer \o <<Call("get_projects", <<data.id>>)>> \o c.log
             IN  IF c.exc /= NoExc
                 THEN Handled(call \o <<Eff("edit", "projects_failed", <<c.exc.msg>>)>>,
                              ud, c.exc, NoExc)
                 ELSE IF c.value = <<>>
                 THEN Handled(call \o <<Eff("edit", "no_projects", <<>>)>>, ud1, NoExc, NoExc)
                 ELSE Handled(call \o <<Eff("edit", "choose_project", <<c.value>>)>>,
                              ud1, NoExc, NoExc)
        ELSE IF data.prefix = "project_"
        THEN Handled(answer \o <<Eff("edit", "project_selected", <<data.id>>)>>,
                     Put(ud, "selected_project_id", data.id), NoExc, NoExc)
        ELSE Handled(answer, ud, NoExc, NoExc)

\* app.py:194-230.  data is [prefix, id]: the text before the id and the id,
\* None when what follows the prefix is not a number (int() raises ValueError).
button_handler(data, ud, env) ==
    LET answer == <<Eff("telegram", "answer", <<>>)>>
    IN  IF data.id = None /\ data.prefix \in {"client_", "project_"}
        THEN Handled(answer, ud, NoExc, Exc("ValueError", "invalid literal for int()"))
        ELSE IF data.prefix = "client_"
        THEN LET ud1 == Put(ud, "selected_client_id", data.id)
                 c == get_projects(data.id, env)
                 call == answer \o <<Call("get_projects", <<data.id>>)>> \o c.log
             IN  IF c.exc /= NoExc
                 THEN Handled(call \o <<Eff("edit", "projects_failed", <<c.exc.msg>>)>>,
                              ud1, c.exc, NoExc)
                 ELSE IF c.value = <<>>
                 THEN Handled(call \o <<Eff("edit", "no_projects", <<>>)>>, ud1, NoExc, NoExc)
                 ELSE Handled(call \o <<Eff("edit", "choose_project", <<c.value>>)>>,
                              ud1, NoExc, NoExc)
        ELSE IF data.prefix = "project_"
        THEN Handled(answer \o <<Eff("edit", "project_selected", <<data.id>>)>>,
                     Put(ud, "selected_project_id", data.id), NoExc, NoExc)
        ELSE Handled(answer, ud, NoExc, NoExc)

\* app.py:232-303.  voice is what fetching and transcribing the audio gave:
\* "ok", "download_error" (get_file or download raised) or
\* "transcribe_error" (transcribe_audio raised).  Whatever is raised after the
\* "processing" reply and is not caught by the inner try is caught by the
\* except clause of line 301.
voice_message_handler(voice, transcribed_text, r, ud, env) ==
    LET processing == <<Reply("processing", <<>>)>>
        transcribe == <<Eff("gemini", "transcribe", <<>>)>>
        failed == <<Reply("voice_failed", <<>>)>>
        heard == processing \o transcribe
                   \o <<Reply("transcription", <<transcribed_text>>)>>
                   \o GeminiCall(transcribed_text)
    IN  IF ~gemini_model THEN Handled(<<Reply("disabled_voice", <<>>)>>, ud, NoExc, NoExc)
        ELSE IF voice = "download_error" THEN Handled(processing \o failed, ud, NoExc, NoExc)
        ELSE IF voice = "transcribe_error"
        THEN Handled(processing \o transcribe \o failed, ud, NoExc, NoExc)
        ELSE LET g == get_gemini_intent(transcribed_text, r)
                 ud1 == Put(Put(ud, "last_transcription", transcribed_text),
                            "last_intent", g.value)
                 d == DispatchIntent(g.value, transcribed_text, ud1, env)
             IN  IF g.exc /= NoExc THEN Handled(heard \o failed, ud, NoExc, NoExc)
                 ELSE IF d.handler_exc /= NoExc
                 THEN Handled(heard \o d.effects \o failed, ud1, d.toggl_exc, NoExc)
                 ELSE Handled(heard \o d.effects, ud1, d.toggl_exc, NoExc)

\* app.py:169-173: every update of the model has an effective message
error_handler(e) == <<Reply("error_handler", <<e.msg>>)>>

(***************************************************************************)
(* The webhook and the dispatcher.  An update is                           *)
(*   [kind, text, data, voice]                                             *)
(* with kind "text", "voice", "callback", "/start", "/toggl_clients",      *)
(* "other" (an update no handler is registered for), "bad_json" (the body  *)
(* is not JSON) or "bad_update" (JSON that Update.de_json rejects).        *)
(***************************************************************************)
NoData == [prefix |-> "", id |-> None]

Upd(kind, text, data, voice) == [kind |-> kind, text |-> text, data |-> data, voice |-> voice]

\* app.py:306-310: the handler registered for the update's kind
run_handler(u, r, ud, env) ==
    CASE u.kind = "/start" -> start(ud)
      [] u.kind = "/toggl_clients" -> toggl_clients_command(ud, env)
      [] u.kind = "text" -> handle_text_message(u.text, r, ud, env)
      [] u.kind = "voice" -> voice_message_handler(u.voice, u.text, r, ud, env)
      [] u.kind = "callback" -> button_handler(u.data, ud, env)
      [] OTHER -> Handled(<<>>, ud, NoExc, NoExc)

\* process_update with no error handler registered and the exception re-raised
process_update_reraising(u, r, ud, env) ==
    LET h == run_handler(u, r, ud, env)
    IN  [handled |-> h, raised |-> h.handler_exc]

\* app.py:311, 324: dispatcher.process_update(update).  An exception leaving the
\* handler is caught by the dispatcher and given to error_handler; none leaves
\* process_update.  Yields [handled, raised].
process_update(u, r, ud, env) ==
    LET h == run_handler(u, r, ud, env)
    IN  [handled |-> IF h.handler_exc = NoExc THEN h
                     ELSE [h EXCEPT !.effects = h.effects \o error_handler(h.handler_exc)],
         raised |-> NoExc]

\* app.py:319-325.  request.get_json(force=True) raises BadRequest on a body
\* that is not JSON (Flask answers 400); an exception of Update.de_json or of
\* process_update leaves the view (Flask answers 500): nothing in webhook()
\* catches either.
webhook_status(u, raised) ==
    CASE u.kind = "bad_json" -> 400
      [] u.kind = "bad_update" -> 500
      [] raised /= NoExc -> 500
      [] OTHER -> 200

Parsed(u) == u.kind \notin {"bad_json", "bad_update"}

\* One POST /webhook: the whole of webhook() for the update u, with r what the
\* classifier answers and env what the Toggl API answers during the call.
Webhook(u, r, env) ==
    LET p == IF Parsed(u) THEN process_update(u, r, user_data, env)
             ELSE [handled |-> Handled(<<>>, user_data, NoExc, NoExc), raised |-> NoExc]
    IN  /\ update' = u
        /\ response' = r
        /\ \E pp \in {p} :
            /\ effects' = pp.handled.effects
            /\ user_data' = pp.handled.user_data
            /\ toggl_exc' = pp.handled.toggl_exc
            /\ handler_exc' = pp.handled.handler_exc
            /\ http_status' = webhook_status(u, pp.raised)
        /\ UNCHANGED <<gemini_model, TOGGL_API_KEY, remote_projects, result>>

(***************************************************************************)
(* The inputs of the model.                                                *)
(***************************************************************************)
Texts == {"write the report"}

Ids == 0..MaxId

CallbackData == [prefix : {"client_", "project_", "noop"}, id : {None} \cup {Some(i) : i \in Ids}]

Obj(ms) == <<"{">> \o ms \o <<"}">>

Resp(pre, lead, body, trail, post) ==
    [raises |-> FALSE, pre |-> pre, lead |-> lead, body |-> body, trail |-> trail,
     post |-> post]

Plain(body) == Resp(<<>>, <<>>, body, <<>>, <<>>)

\* generate_content (or response.text) raised
ModelError == [Plain(<<>>) EXCEPT !.raises = TRUE]

\* the response variable before any classification
NoResponse == Plain(<<>>)

\* The classifier answers of the conversation model.
Responses ==
    {ModelError}
    \cup {Plain(Obj(ms)) : ms \in {<<"S">>, <<"S", "D">>, <<"A">>, <<"A", "H">>, <<"A", "Z">>,
                                   <<"A", "Q">>, <<"T">>, <<"G">>, <<"N">>, <<"U">>, <<>>}}
    \cup {Plain(<<"[", "]">>), Plain(<<"s", "o", "n">>)}
    \cup {Resp(<<>>, JsonFence, <<"\n">> \o Obj(<<"A", "D", "H">>) \o <<"\n">>, Fence, <<>>)}

NoUpdate == Upd("none", "", NoData, "")

NoResult == Return(None, <<>>)

DefaultProjects ==
    <<[id |-> 1, client_id |-> Some(1)], [id |-> 2, client_id |-> None],
      [id |-> 0, client_id |-> Some(1)]>>

(***************************************************************************)
(* The conversation: every update is one POST /webhook.                    *)
(***************************************************************************)
Init ==
    /\ gemini_model \in BOOLEAN
    /\ TOGGL_API_KEY \in BOOLEAN
    /\ remote_projects = DefaultProjects
    /\ user_data = EmptyDict
    /\ update = NoUpdate
    /\ response = NoResponse
    /\ effects = <<>>
    /\ toggl_exc = NoExc
    /\ handler_exc = NoExc
    /\ http_status = 0
    /\ result = NoResult

\* a text message that is no command (app.py:308)
TextMessage ==
    \E t \in Texts, r \in Responses, env \in Envs :
        Webhook(Upd("text", t, NoData, ""), r, env)

\* a voice message (app.py:309): the audio is fetched and transcribed to t, or
\* fetching or transcribing it fails
VoiceMessage ==
    \/ \E t \in Texts, r \in Responses, env \in Envs :
           Webhook(Upd("voice", t, NoData, "ok"), r, env)
    \/ \E v \in {"download_error", "transcribe_error"} :
           Webhook(Upd("voice", "", NoData, v), NoResponse, OkEnv)

\* a press of an inline button (app.py:310); the Toggl API is only asked after
\* a client_<id> press
ButtonCallback ==
    \E d \in CallbackData, env \in Envs :
        /\ (d.prefix /= "client_" \/ d.id = None) => env = OkEnv
        /\ Webhook(Upd("callback", "", d, ""), NoResponse, env)

\* /start (app.py:306)
StartCommand ==
    Webhook(Upd("/start", "", NoData, ""), NoResponse, OkEnv)

\* /toggl_clients (app.py:307)
TogglClientsCommand ==
    \E env \in Envs :
        Webhook(Upd("/toggl_clients", "", NoData, ""), NoResponse, env)

\* an update no handler is registered for
UnhandledUpdate ==
    Webhook(Upd("other", "", NoData, ""), NoResponse, OkEnv)

\* a request whose body is not an update
MalformedRequest ==
    \E k \in {"bad_json", "bad_update"} :
        Webhook(Upd(k, "", NoData, ""), NoResponse, OkEnv)

Next ==
    \/ TextMessage
    \/ VoiceMessage
    \/ ButtonCallback
    \/ StartCommand
    \/ TogglClientsCommand
    \/ UnhandledUpdate
    \/ MalformedRequest

Spec == Init /\ [][Next]_vars

(***************************************************************************)
(* The classifier on fenced responses: Init draws the response the model   *)
(* is about to give, Classify hands one text message to the webhook.       *)
(***************************************************************************)
RECURSIVE SeqsUpTo(_, _)
SeqsUpTo(S, n) ==
    IF n = 0 THEN {<<>>}
    ELSE LET shorter == SeqsUpTo(S, n - 1)
         IN  shorter \cup {Append(q, x) : q \in shorter, x \in S}

FenceMembers == {"S", "D", "H"}

\* JSON objects, bare or on lines of their own, and two texts that are no object
FenceBodies ==
    {Obj(ms) : ms \in SeqsUpTo(FenceMembers, MaxMembers)}
    \cup {<<"\n">> \o Obj(ms) \o <<"\n">> : ms \in SeqsUpTo(FenceMembers, MaxMembers)}
    \cup {<<"[", "]">>, <<"s", "o", "n">>}

FenceResponses ==
    {Resp(pre, lead, body, trail, post) :
        pre \in {<<>>, <<" ">>}, lead \in {<<>>, JsonFence, Fence}, body \in FenceBodies,
        trail \in {<<>>, Fence}, post \in {<<>>, <<"\n">>}}

InitFence ==
    /\ gemini_model = TRUE
    /\ TOGGL_API_KEY = TRUE
    /\ remote_projects = DefaultProjects
    /\ user_data = EmptyDict
    /\ update = NoUpdate
    /\ response \in FenceResponses
    /\ effects = <<>>
    /\ toggl_exc = NoExc
    /\ handler_exc = NoExc
    /\ http_status = 0
    /\ result = NoResult

Classify ==
    \E t \in Texts :
        Webhook(Upd("text", t, NoData, ""), response, OkEnv)

NextFence == Classify

SpecFence == InitFence /\ [][NextFence]_vars

(***************************************************************************)
(* The Toggl client's get_projects called directly: Init draws the project *)
(* list of the workspace, ListProjects calls get_projects.  A project's id *)
(* is its place in the list; its client_id is None or the id of a client.  *)
(***************************************************************************)
ClientIds == {None} \cup {Some(i) : i \in Ids}

RECURSIVE ProjectLists(_)
ProjectLists(n) ==
    IF n = 0 THEN {<<>>}
    ELSE LET shorter == ProjectLists(n - 1)
         IN  shorter \cup {Append(q, [id |-> Len(q) + 1, client_id |-> c]) :
                              q \in shorter, c \in ClientIds}

InitProjects ==
    /\ gemini_model = TRUE
    /\ TOGGL_API_KEY \in BOOLEAN
    /\ remote_projects \in ProjectLists(MaxProjects)
    /\ user_data = EmptyDict
    /\ update = NoUpdate
    /\ response = NoResponse
    /\ effects = <<>>
    /\ toggl_exc = NoExc
    /\ handler_exc = NoExc
    /\ http_status = 0
    /\ result = NoResult

\* get_projects(client_id) (client_id None: get_projects())
ListProjects ==
    \E client_id \in ClientIds, env \in Envs :
        /\ update' = Upd("get_projects", "", [prefix |-> "", id |-> client_id], "")
        /\ result' = get_projects(client_id, env)
        /\ UNCHANGED <<gemini_model, TOGGL_API_KEY, remote_projects, user_data, response,
                       effects, toggl_exc, handler_exc, http_status>>

NextProjects == ListProjects

SpecProjects == InitProjects /\ [][NextProjects]_vars

(***************************************************************************)
(* What the properties below read off a state.                             *)
(***************************************************************************)
Replies == SelectSeq(effects, LAMBDA e : e.op = "reply")

TogglCalls == SelectSeq(effects, LAMBDA e : e.op = "toggl")

LastReply == Replies[Len(Replies)]

\* the answers the Toggl API gave to the requests `what` of the last webhook call
Answers(what) == {effects[i].args[1] : i \in {k \in 1..Len(effects) :
                                                effects[k].op = "http" /\ effects[k].what = what}}

\* the last update was a text or voice message that reached the dispatch of its intent
Dispatched ==
    /\ gemini_model
    /\ update.kind = "text" \/ (update.kind = "voice" /\ update.voice = "ok")

LastIntent == user_data["last_intent"]

LastAction == Get(LastIntent, "action", "None")

LastDescription == Get(LastIntent, "description", update.text)

ProjectIsSet == "selected_project_id" \in DOMAIN user_data

(***************************************************************************)
(* C1.  stop_active_entry() returns null when the current-entry endpoint   *)
(* yields an empty body and the stopped entry when an entry is running: it *)
(* raises in neither case, and a stop_timer intent is answered "No active  *)
(* timer" in the first case and "Stopped active Toggl timer" in the second.*)
(* (The statement of the claim; the code raises TypeError when an entry is *)
(* running.)                                                               *)
(***************************************************************************)
StopActiveEntryReturnsEntryOrNull ==
    (Dispatched /\ LastAction = "stop_timer") =>
        /\ "null" \in Answers("GET /me/time_entries/current") =>
              toggl_exc = NoExc /\ LastReply.what = "no_active"
        /\ "entry" \in Answers("GET /me/time_entries/current") =>
              toggl_exc = NoExc /\ LastReply.what = "stopped"

(***************************************************************************)
(* C2.  After a start_timer intent: if selected_project_id is not set the  *)
(* reply is the "select a project" prompt and no call went to the Toggl    *)
(* client; if it is set, exactly one call went to the client, and it is    *)
(* start_entry(description, selected_project_id).                          *)
(* (The statement of the claim; the code treats the project id 0 as unset.)*)
(***************************************************************************)
StartTimerRequiresProject ==
    (Dispatched /\ LastAction = "start_timer") =>
        IF ProjectIsSet
        THEN /\ Len(TogglCalls) = 1
             /\ TogglCalls[1].what = "start_time_entry"
             /\ TogglCalls[1].args = <<LastDescription, user_data["selected_project_id"]>>
        ELSE LastReply.what = "select_project" /\ TogglCalls = <<>>

(***************************************************************************)
(* C3.  After an add_entry intent, create_past_entry was called (once) if  *)
(* and only if selected_project_id is set and duration_seconds is not      *)
(* null; with no project the reply is the "select a project" prompt, with  *)
(* a project and no duration it is the "need a duration" prompt, and in    *)
(* both cases no call went to the Toggl client.                            *)
(* (The statement of the claim; the code treats a duration of 0, and the   *)
(* project id 0, as missing.)                                              *)
(***************************************************************************)
AddEntryRequiresProjectAndDuration ==
    (Dispatched /\ LastAction = "add_entry") =>
        LET duration_seconds == Get(LastIntent, "duration_seconds", None)
            created == SelectSeq(TogglCalls, LAMBDA e : e.what = "create_time_entry")
        IN  /\ Len(created) = (IF ProjectIsSet /\ duration_seconds /= None THEN 1 ELSE 0)
            /\ ~ProjectIsSet => LastReply.what = "select_project" /\ TogglCalls = <<>>
            /\ (ProjectIsSet /\ duration_seconds = None) =>
                  LastReply.what = "need_duration" /\ TogglCalls = <<>>

(***************************************************************************)
(* C4 as stated.  When a Toggl call of the dispatch fails with a 4xx       *)
(* response, the reply is the "Please ensure your TOGGL_API_KEY is         *)
(* correct" reply carrying the remote error text.                          *)
(***************************************************************************)
RemoteAuthErrorGetsKeyHint ==
    (Dispatched /\ toggl_exc = Exc("HTTPError", "4xx")) =>
        LastReply.what = "key_hint" /\ LastReply.args = <<toggl_exc.msg>>

(***************************************************************************)
(* C4 as amended.  When a Toggl call of the dispatch raises, the reply     *)
(* carries the error text; it is the "Please ensure your TOGGL_API_KEY is  *)
(* correct" reply exactly when the client raised a ValueError (key not     *)
(* set, workspace id not determined), and the generic "An error occurred"  *)
(* reply for every other error, a 4xx response of the remote API included. *)
(***************************************************************************)
KeyHintIsForValueError ==
    (Dispatched /\ toggl_exc /= NoExc) =>
        /\ LastReply.args = <<toggl_exc.msg>>
        /\ LastReply.what = (IF toggl_exc.type = "ValueError" THEN "key_hint"
                             ELSE "generic_error")

Remote4xxGetsGenericReply ==
    /\ Dispatched
    /\ toggl_exc = Exc("HTTPError", "4xx")
    /\ LastReply.what = "generic_error"
    /\ LastAction = "start_timer"

(***************************************************************************)
(* C5.  Whenever start_entry, create_past_entry or stop_active_entry       *)
(* raises during the dispatch of a text or voice message, the handler      *)
(* catches it: no exception leaves the handler, exactly one error reply is *)
(* sent (the last thing the handler does), the webhook answers normally,   *)
(* and the next message can be processed.                                  *)
(***************************************************************************)
ErrorReplies ==
    SelectSeq(Replies, LAMBDA e : e.what \in {"key_hint", "generic_error", "voice_failed",
                                              "error_handler"})

TogglErrorsAreCaught ==
    (Dispatched /\ toggl_exc /= NoExc) =>
        /\ handler_exc = NoExc
        /\ Len(ErrorReplies) = 1
        /\ effects[Len(effects)].op = "reply"
        /\ LastReply.what \in {"key_hint", "generic_error"}
        /\ http_status = 200
        /\ ENABLED TextMessage

VoiceDispatchErrorCaught ==
    /\ Dispatched
    /\ update.kind = "voice"
    /\ toggl_exc.type = "HTTPError"
    /\ LastAction = "add_entry"
    /\ Len(ErrorReplies) = 1

(***************************************************************************)
(* C6 as stated.  POST /webhook answers 200 for every inbound update,      *)
(* whatever happens while it is parsed and dispatched.                     *)
(***************************************************************************)
WebhookAlwaysAnswers200 == update.kind \notin {"none", "get_projects"} => http_status = 200

(***************************************************************************)
(* C6 as amended.  POST /webhook answers 200 for every request whose body  *)
(* parses into an update, whatever happens while the update is dispatched  *)
(* (handler error, remote failure, update no handler takes); a body that   *)
(* does not parse is answered with an error status and nothing is          *)
(* dispatched.                                                             *)
(***************************************************************************)
WebhookStatusFollowsParse ==
    update.kind \notin {"none", "get_projects"} =>
        IF Parsed(update) THEN http_status = 200
        ELSE http_status \in {400, 500} /\ effects = <<>>

HandlerErrorAnswered200 ==
    /\ handler_exc /= NoExc
    /\ http_status = 200
    /\ LastReply.what = "error_handler"

(***************************************************************************)
(* C8.  classify never raises: when the model raises, or its response does *)
(* not parse as a JSON object, the intent is {action: none, raw_text: the  *)
(* input text, error: a message}; the handler then sends the "none" echo   *)
(* reply and calls nothing of the Toggl client.                            *)
(***************************************************************************)
ClassificationFailed ==
    response.raises \/ json_loads(response_text(response)).kind /= "dict"

ClassificationFailureYieldsNone ==
    (Dispatched /\ ClassificationFailed) =>
        /\ handler_exc = NoExc
        /\ LastReply.what /= "voice_failed"
        /\ DOMAIN LastIntent = {"action", "raw_text", "error"}
        /\ LastIntent.action = "none"
        /\ LastIntent.raw_text = update.text
        /\ LastReply.what = "none_echo"
        /\ TogglCalls = <<>>

NonObjectResponseEchoed ==
    /\ Dispatched
    /\ ~response.raises
    /\ json_loads(response_text(response)).kind = "list"
    /\ LastReply.what = "none_echo"
    /\ ProjectIsSet

(***************************************************************************)
(* C9.  With no language-model credential, a text or voice message gets    *)
(* the fixed "disabled" reply and nothing else happens: no call of the     *)
(* model, no call of the Toggl client, and user_data (selected_client_id,  *)
(* selected_project_id, last_intent) stays as it was.                      *)
(***************************************************************************)
DisabledIsInert ==
    [][(~gemini_model /\ update'.kind \in {"text", "voice"}) =>
          /\ Len(effects') = 1
          /\ effects'[1].op = "reply"
          /\ effects'[1].what = (IF update'.kind = "text" THEN "disabled_text"
                                  ELSE "disabled_voice")
          /\ user_data' = user_data]_vars

DisabledReplyWithSelection ==
    /\ ~gemini_model
    /\ update.kind = "text"
    /\ Replies = <<Reply("disabled_text", <<>>)>>
    /\ ProjectIsSet
    /\ "selected_client_id" \in DOMAIN user_data

(***************************************************************************)
(* C7.  (SpecFence)  For a response that is a JSON object wrapped in the   *)
(* leading marker, the trailing marker, both or neither, the intent is the *)
(* intent of the unwrapped JSON; stripping the fences of the stripped text *)
(* again changes nothing, and stripping the trailing marker before the     *)
(* leading one gives the same text.  The leading marker is the literal     *)
(* JsonFence of line 94, the trailing one the Fence of line 96.            *)
(***************************************************************************)
WrappedObject ==
    /\ ~response.raises
    /\ response.lead \in {<<>>, JsonFence}
    /\ response.trail \in {<<>>, Fence}
    /\ json_loads(response.body).kind = "dict"

ListProjectsFiltersByClient ==
    (/\ update.kind = "get_projects"
     /\ \E i \in 1..Len(result.log) :
           result.log[i].what = "GET /projects" /\ result.log[i].args = <<"ok">>) =>
        LET client_id == update.data.id
        IN  /\ result.exc = NoExc
            /\ result.value = (IF client_id /= None
                               THEN SelectSeq(remote_projects,
                                              LAMBDA p : p.client_id = client_id)
                               ELSE remote_projects)

(***************************************************************************)
(* C11.  In every reachable state of the conversation, a set               *)
(* selected_project_id implies a set selected_client_id (which only a      *)
(* client_<id> callback sets).                                             *)
(* (The statement of the claim; the code stores the project of a           *)
(* project_<id> callback without looking at selected_client_id.)           *)
(***************************************************************************)
ClientIsSet == "selected_client_id" \in DOMAIN user_data

ProjectSelectionImpliesClientSelection == ProjectIsSet => ClientIsSet

(***************************************************************************)
(* C12.  A client_<id> callback is answered before any call to the Toggl   *)
(* client and before the message is edited, leaves selected_client_id =    *)
(* <id> whether or not get_projects raised, and leaves selected_project_id *)
(* and last_intent as they were; a project_<id> callback leaves            *)
(* selected_project_id = <id> and selected_client_id as it was.            *)
(***************************************************************************)
Pressed(prefix) ==
    /\ update.kind = "callback"
    /\ update.data.prefix = prefix
    /\ update.data.id /= None

\* query.answer() precedes every Toggl call, request and edit of the last update
AnsweredFirst ==
    \E i \in 1..Len(effects) :
        /\ effects[i] = Eff("telegram", "answer", <<>>)
        /\ \A j \in 1..Len(effects) :
               effects[j].op \in {"toggl", "http", "edit"} => i < j

\* the step leaves the key k of user_data as it was: absent, or with its value
KeyUnchanged(k) ==
    /\ (k \in DOMAIN user_data') <=> (k \in DOMAIN user_data)
    /\ k \in DOMAIN user_data => user_data'[k] = user_data[k]

Selected(k) == k \in DOMAIN user_data /\ user_data[k] = update.data.id

ButtonCallbackFrame ==
    [][/\ Pressed("client_")' =>
            /\ AnsweredFirst'
            /\ Selected("selected_client_id")'
            /\ KeyUnchanged("selected_project_id")
            /\ KeyUnchanged("last_intent")
       /\ Pressed("project_")' =>
            /\ Selected("selected_project_id")'
            /\ KeyUnchanged("selected_client_id")]_vars

\* a client was chosen while a project of another client was selected and an
\* intent remembered, and fetching the client's projects failed
ClientChosenFetchFailed ==
    /\ Pressed("client_")
    /\ toggl_exc /= NoExc
    /\ user_data["selected_client_id"] = Some(0)
    /\ ProjectIsSet /\ user_data["selected_project_id"] = Some(1)
    /\ "last_intent" \in DOMAIN user_data

====
